---- MODULE Spec2Model ----
(***************************************************************************)
(* Model of the post ingestion pipeline of routes/api.js (Mongo revision, *)
(* lines 410-1259): the rate-limit guard, the author fetch, the filter    *)
(* chain, the project matcher, the quality scorer, the Post store, the    *)
(* processed-post ledger and the categorizer of GET /posts/:username.     *)
(*                                                                         *)
(* Texts are sequences of one-character strings.  Times are minutes.      *)
(* Rewards (blabz) are counted in units of 0.0001.                         *)
(***************************************************************************)
EXTENDS Integers, Sequences, FiniteSets, TLC

VARIABLES world, users, projects, ledger, posts, rateLimitUntil, now, res, quiet, calc,
          reqs, upstreamLog

vars == <<world, users, projects, ledger, posts, rateLimitUntil, now, res, quiet, calc,
          reqs, upstreamLog>>

(***************************************************************************)
(* Bounds of the model.                                                    *)
(***************************************************************************)
\* small clock ticks taken after each week boundary
MaxTicks == 1
\* week-long jumps of the clock
MaxWeeks == 1
\* minutes of one small clock tick
TickMinutes == 20
\* longest text handed to the scorer in the scorer specification
MaxScoreLen == 260

(***************************************************************************)
(* Program constants.                                                      *)
(***************************************************************************)
\* 15 * 60 * 1000 ms, in minutes
Cooldown == 15
\* 7 * 24 * 60 * 60 * 1000 ms, in minutes
Lookback == 10080
\* tweet.text.length < 51
MinLength == 51

\* rateLimitUntil = null: no date
NULL == -1
\* the number NaN, which is no score
NaN == -1

(***************************************************************************)
(* Characters and strings.                                                 *)
(***************************************************************************)
LowerLetters == <<"a", "c", "e", "h", "i", "l", "n", "o", "s", "t", "x">>
UpperLetters == <<"A", "C", "E", "H", "I", "L", "N", "O", "S", "T", "X">>

Range(s) == {s[i] : i \in DOMAIN s}

\* String.prototype.toLowerCase, one character
lowerChar(c) ==
    IF \E i \in DOMAIN UpperLetters : UpperLetters[i] = c
    THEN LowerLetters[CHOOSE i \in DOMAIN UpperLetters : UpperLetters[i] = c]
    ELSE c

\* String.prototype.toUpperCase, one character
upperChar(c) ==
    IF \E i \in DOMAIN LowerLetters : LowerLetters[i] = c
    THEN UpperLetters[CHOOSE i \in DOMAIN LowerLetters : LowerLetters[i] = c]
    ELSE c

toLowerCase(s) == [i \in DOMAIN s |-> lowerChar(s[i])]
toUpperCase(s) == [i \in DOMAIN s |-> upperChar(s[i])]

\* String.prototype.includes: term is a literal substring of text
includes(text, term) ==
    \E i \in 1..(Len(text) - Len(term) + 1) :
        \A j \in 1..Len(term) : text[i + j - 1] = term[j]

\* the regular expression class \w
isWordChar(c) ==
    c \in Range(LowerLetters) \cup Range(UpperLetters) \cup {"0", "1", "_"}

\* length of the longest run of \w characters of text starting at position i
RECURSIVE wordRun(_, _)
wordRun(text, i) ==
    IF i > Len(text) \/ ~isWordChar(text[i]) THEN 0
    ELSE 1 + wordRun(text, i + 1)

\* the regex loop of extractMentions from position i on
RECURSIVE mentionsFrom(_, _)
mentionsFrom(text, i) ==
    IF i > Len(text) THEN 0
    ELSE IF text[i] = "@" /\ wordRun(text, i + 1) > 0
         THEN (1 + wordRun(text, i + 1))
              + mentionsFrom(text, i + 1 + wordRun(text, i + 1))
         ELSE mentionsFrom(text, i + 1)

\* extractMentions(text): the characters taken by the matches of /@(\w+)/g
extractMentionsOf(text) == mentionsFrom(text, 1)

\* the test without the two toLowerCase() calls
includesCaseSensitive(text, term) == includes(text, term)

\* text.toLowerCase().includes(term.toLowerCase())
lowerIncludes(text, term) == includes(toLowerCase(text), toLowerCase(term))

(***************************************************************************)
(* Numbers: a rational is <<numerator, denominator>>, denominator > 0.     *)
(***************************************************************************)
Min(a, b) == IF a <= b THEN a ELSE b
Max(a, b) == IF a >= b THEN a ELSE b

\* Math.round of the rational n/d: the nearest integer, a half rounds up
MathRound(n, d) == (2 * n + d) \div (2 * d)

\* Number.prototype.toFixed(4) of the rational n/d, in units of 0.0001
toFixed4(n, d) == MathRound(10000 * n, d)

\* tweet.public_metrics is undefined
NoMetrics == [absent |-> TRUE]

\* calculateQualityScore with the constant term 0.5 in place of 0.5 * 0.5
calculateQualityScoreHalf(tweet, followersCount) ==
    LET lengthNum == Min(Max(Len(tweet.text) - 50, 0), 200)
        m == tweet.public_metrics
    IN  IF m = NoMetrics THEN NaN
        ELSE
        LET engagementRaw == m.like_count + 2 * m.retweet_count + 3 * m.quote_count
            den == Max(1, followersCount)
            eNum == IF engagementRaw >= den THEN 1 ELSE engagementRaw
            eDen == IF engagementRaw >= den THEN 1 ELSE den
            num == 99 * (2 * 200 * eDen + lengthNum * eDen + 200 * eNum)
            d == 4 * 200 * eDen
        IN MathRound(num, d) + 1

\* calculateQualityScore(tweet, followersCount); absent public_metrics leave
\* like_count, retweet_count and quote_count undefined, and the sum is NaN
calculateQualityScore(tweet, followersCount) ==
    LET lengthNum == Min(Max(Len(tweet.text) - 50, 0), 200)
        m == tweet.public_metrics
    IN  IF m = NoMetrics THEN NaN
        ELSE
        LET engagementRaw == m.like_count + 2 * m.retweet_count + 3 * m.quote_count
            den == Max(1, followersCount)
            eNum == IF engagementRaw >= den THEN 1 ELSE engagementRaw
            eDen == IF engagementRaw >= den THEN 1 ELSE den
            \* combinedScore = 0.5 * 0.5 + 0.25 * lengthScore + 0.25 * engagementScore
            \*               = (1 + lengthNum/200 + eNum/eDen) / 4, times 99:
            num == 99 * (200 * eDen + lengthNum * eDen + 200 * eNum)
            d == 4 * 200 * eDen
        IN MathRound(num, d) + 1

\* calculateBlabzPerProject(qualityScore): (qualityScore / 300).toFixed(4)
calculateBlabzPerProject(qualityScore) ==
    IF qualityScore = NaN THEN NaN ELSE toFixed4(qualityScore, 300)

\* the total without the factor matchedProjects.length
totalBlabzSingle(projectBlabz, k) ==
    IF projectBlabz = NaN THEN NaN ELSE toFixed4(projectBlabz, 10000)

\* (projectBlabz * matchedProjects.length).toFixed(4), projectBlabz in units
totalBlabz(projectBlabz, k) ==
    IF projectBlabz = NaN THEN NaN ELSE toFixed4(projectBlabz * k, 10000)

(***************************************************************************)
(* The upstream source: handles, user ids and the tweets that exist.       *)
(***************************************************************************)
Handles == {"alice", "bob"}
UserIdOf == [h \in Handles |-> IF h = "alice" THEN "1001" ELSE "1002"]
FollowerCounts == {1000}

Pad(s, n, c) == s \o [i \in 1..(n - Len(s)) |-> c]

StrSol == <<"S", "o", "l", " ">>
StrChain == <<"c", "h", "a", "i", "n", " ">>
StrChainCap == <<"C", "h", "a", "i", "n", " ">>
StrHello == <<"h", "e", "l", "l", "o", " ">>
StrMention == <<"@">> \o [i \in 1..40 |-> "x"] \o <<" ">> \o StrChain
StrMention36 == <<"@">> \o [i \in 1..35 |-> "x"] \o <<" ">> \o StrChain

\* tweet.referenced_tweets?.[0]?.type of a tweet that references nothing
NoRef == "undefined"

\* the tweets of the upstream source: reference type of referenced_tweets[0],
\* text and created_at
Tweets ==
    [t1 |-> [id |-> "t1", author |-> "1001", type |-> NoRef,
             text |-> Pad(StrSol, 51, "x"), created_at |-> 0],
     t2 |-> [id |-> "t2", author |-> "1001", type |-> "quoted",
             text |-> Pad(StrChain, 80, "x"), created_at |-> 0],
     t3 |-> [id |-> "t3", author |-> "1001", type |-> "replied_to",
             text |-> Pad(StrChain, 60, "x"), created_at |-> 0],
     t4 |-> [id |-> "t4", author |-> "1001", type |-> "retweeted",
             text |-> Pad(StrChain, 60, "x"), created_at |-> 0],
     t5 |-> [id |-> "t5", author |-> "1001", type |-> NoRef,
             text |-> Pad(StrChainCap, 50, "x"), created_at |-> 0],
     t6 |-> [id |-> "t6", author |-> "1001", type |-> NoRef,
             text |-> Pad(StrMention, 60, " "), created_at |-> 0],
     t7 |-> [id |-> "t7", author |-> "1001", type |-> NoRef,
             text |-> Pad(StrHello, 60, "x"), created_at |-> 0],
     t8 |-> [id |-> "t8", author |-> "1002", type |-> NoRef,
             text |-> Pad(StrChain, 60, "x"), created_at |-> 0],
     t9 |-> [id |-> "t9", author |-> "1001", type |-> NoRef,
             text |-> Pad(StrMention36, 60, " "), created_at |-> 0],
     t10 |-> [id |-> "t10", author |-> "1001", type |-> NoRef,
              text |-> Pad(StrChain, 60, "x"), created_at |-> 0]]

TweetIds == DOMAIN Tweets
TweetOrder == <<"t1", "t2", "t3", "t4", "t5", "t6", "t7", "t8", "t9", "t10">>

\* engagement counters the upstream reports for a tweet
Quiet == [like_count |-> 0, retweet_count |-> 0, quote_count |-> 0, reply_count |-> 0]
Liked == [like_count |-> 10, retweet_count |-> 5, quote_count |-> 2, reply_count |-> 1]

\* one entry of the timeline response: the tweet with its counters
Candidate(id, m) ==
    [id |-> id, text |-> Tweets[id].text, type |-> Tweets[id].type,
     created_at |-> Tweets[id].created_at, public_metrics |-> m]

\* what POST /projects may be given
NameSol == <<"S", "o", "l">>
NameEth == <<"e", "t", "h">>
ProjectNameInputs == {NameSol, NameEth}
KeywordInputs == {<< <<"C", "h", "a", "i", "n">> >>}

\* the environment of one behaviour: the tweets that exist upstream with their
\* counters, the handles that are asked for, the project names that get
\* configured, and how far the clock runs
\* rising holds the posts whose counters the upstream may still raise and
\* followers the follower counts it may report
World(metrics, handles, names, ticks, weeks) ==
    [tweets |-> DOMAIN metrics, metrics |-> metrics, handles |-> handles,
     names |-> names, ticks |-> ticks, weeks |-> weeks,
     rising |-> {}, followers |-> FollowerCounts]

FewFollowers == 10

Worlds ==
    {World([t1 |-> Quiet, t2 |-> Liked], {"alice"}, {NameSol, NameEth}, 0, 0),
     World([t3 |-> Liked, t4 |-> Liked, t5 |-> Quiet], {"alice"}, {NameSol, NameEth}, 0, 0),
     World([t6 |-> Liked, t7 |-> Liked, t9 |-> Liked], {"alice"}, {NameSol}, 0, 0),
     World([t3 |-> Quiet, t10 |-> Quiet], {"alice"}, {NameSol}, 0, 0),
     World([t1 |-> Liked], {"alice"}, {NameSol}, MaxTicks, MaxWeeks),
     World([t3 |-> Quiet, t8 |-> Quiet], {"alice", "bob"}, {NameSol}, 0, 0),
     World([t1 |-> NoMetrics, t7 |-> Quiet], {"alice"}, {NameSol}, 0, 0),
     [World([t3 |-> Quiet], {"alice"}, {NameSol, NameEth}, 0, 0)
         EXCEPT !.rising = {"t3"}, !.followers = {1000, FewFollowers}]}

(***************************************************************************)
(* Project table (Mongo collection, in insertion order).                   *)
(***************************************************************************)
\* Project.findOneAndUpdate({name}, {$set: projectData}, {upsert: true})
upsertProject(table, name, keywords) ==
    IF \E i \in DOMAIN table : table[i].name = name
    THEN [i \in DOMAIN table |->
             IF table[i].name = name THEN [name |-> name, keywords |-> keywords]
             ELSE table[i]]
    ELSE Append(table, [name |-> name, keywords |-> keywords])

\* The texts and the terms of the model, and the two text functions
\* tabulated over them (each value is computed by the function itself).
Texts == {Tweets[id].text : id \in DOMAIN Tweets}
Terms ==
    {toUpperCase(name) : name \in ProjectNameInputs}
        \cup UNION {Range(keywords) : keywords \in KeywordInputs}
mentionsTable == [text \in Texts |-> extractMentionsOf(text)]
includesTable == [text \in Texts, term \in Terms |-> lowerIncludes(text, term)]

extractMentions(text) ==
    IF text \in Texts THEN mentionsTable[text] ELSE extractMentionsOf(text)

textIncludes(text, term) ==
    IF text \in Texts /\ term \in Terms THEN includesTable[text, term]
    ELSE lowerIncludes(text, term)

\* the names of the matching projects lower-cased instead of upper-cased
matchedProjectsLowerCased(tweetText, dbProjects) ==
    LET terms(project) == {project.name} \cup Range(project.keywords)
        hit(project) == \E term \in terms(project) : textIncludes(tweetText, term)
        matching == SelectSeq(dbProjects, hit)
    IN  [i \in DOMAIN matching |-> toLowerCase(matching[i].name)]

\* matchedProjects of the /posts handler: the names, upper-cased, of the
\* projects one of whose terms (name, keywords, lower-cased) the text includes
matchedProjects(tweetText, dbProjects) ==
    LET terms(project) == {project.name} \cup Range(project.keywords)
        hit(project) == \E term \in terms(project) : textIncludes(tweetText, term)
        matching == SelectSeq(dbProjects, hit)
    IN  [i \in DOMAIN matching |-> toUpperCase(matching[i].name)]

(***************************************************************************)
(* Rate-limit guard and author fetch.                                      *)
(***************************************************************************)
\* rateLimitUntil && rateLimitUntil > new Date()
isLocked(rlu, t) == rlu # NULL /\ rlu > t

\* fetchTwitterUser(username) with the guard value rlu; up is what the
\* upstream would answer.  network tells whether axios.get was called.
fetchTwitterUser(rlu, username, up, followers) ==
    IF isLocked(rlu, now)
    THEN [thrown |-> 429, found |-> FALSE, rlu |-> rlu, network |-> FALSE]
    ELSE CASE up = "429" ->
                [thrown |-> 429, found |-> FALSE, rlu |-> now + Cooldown, network |-> TRUE]
           [] up = "error" ->
                [thrown |-> 500, found |-> FALSE, rlu |-> rlu, network |-> TRUE]
           [] up = "notfound" ->
                [thrown |-> 0, found |-> FALSE, rlu |-> rlu, network |-> TRUE]
           [] OTHER ->
                [thrown |-> 0, found |-> TRUE,
                 user |-> [id |-> UserIdOf[username], username |-> username,
                           followers_count |-> followers],
                 rlu |-> rlu, network |-> TRUE]

(***************************************************************************)
(* Post store, ledger and categorizer.                                     *)
(***************************************************************************)
\* blabz as the handler holds it (the string of toFixed) and as the Post
\* schema stores it (blabz: Number)
BlabzString(units) == [repr |-> "string", units |-> units]
BlabzNumber(units) == [repr |-> "number", units |-> units]

\* the tweetType values the stored-post queries ask for
QueriedTweetTypes == {"main", "quote", "replied_to"}

\* the first filter stage letting retweets through as well
AllowedRefTypesWithRetweets == {"quoted", "replied_to", "retweeted"}

\* the reference types the first filter stage lets through
AllowedRefTypes == {"quoted", "replied_to"}

\* Mongoose casts the $set document to the Post schema: a NaN score or blabz
\* fails the cast (CastError), the blabz string becomes a Number
castFails(postData) == postData.score = NaN \/ postData.blabz.units = NaN
castPost(postData) == [postData EXCEPT !.blabz = BlabzNumber(postData.blabz.units)]

\* an insert that does not look for the document first
insertPost(store, postData) == Append(store, castPost(postData))

\* Post.findOneAndUpdate({postId}, {$set: postData}, {upsert: true})
upsertPost(store, postData) ==
    IF \E i \in DOMAIN store : store[i].postId = postData.postId
    THEN [i \in DOMAIN store |->
             IF store[i].postId = postData.postId THEN castPost(postData)
             ELSE store[i]]
    ELSE Append(store, castPost(postData))

\* the stored-post query without its createdAt condition
findPostsAnyAge(store, userId, t) ==
    SelectSeq(store, LAMBDA post :
        /\ post.userId = userId
        /\ post.tweetType \in QueriedTweetTypes)

\* the query without its userId condition
findPostsAnyAuthor(store, userId, t) ==
    SelectSeq(store, LAMBDA post :
        /\ post.createdAt >= t - Lookback
        /\ post.tweetType \in QueriedTweetTypes)

\* Post.find({userId, createdAt: {$gte: now - 7 days}, tweetType: {$in: ...}})
findPosts(store, userId, t) ==
    SelectSeq(store, LAMBDA post :
        /\ post.userId = userId
        /\ post.createdAt >= t - Lookback
        /\ post.tweetType \in QueriedTweetTypes)

\* a map that is not seeded
seedGroupsNone(dbProjects) == <<>>

\* categorizedPosts[project.name.toUpperCase()] = [] for every project
seedGroups(dbProjects) ==
    [name \in {toUpperCase(dbProjects[i].name) : i \in DOMAIN dbProjects} |-> <<>>]

\* postData.project.forEach(project => if (categorizedPosts[project]) push)
pushPost(cat, postData) ==
    [name \in DOMAIN cat |->
        IF name \in Range(postData.project) THEN Append(cat[name], postData)
        ELSE cat[name]]

RECURSIVE pushPosts(_, _)
pushPosts(cat, list) ==
    IF list = <<>> THEN cat
    ELSE pushPosts(pushPost(cat, Head(list)), Tail(list))

\* a filter that keeps every occurrence
dedupNone(list, seen) == list

\* filter with seenPostIds: the first occurrence of each postId is kept
RECURSIVE dedup(_, _)
dedup(list, seen) ==
    IF list = <<>> THEN <<>>
    ELSE IF Head(list).postId \in seen THEN dedup(Tail(list), seen)
         ELSE <<Head(list)>> \o dedup(Tail(list), seen \cup {Head(list).postId})

\* insertion of post before its equals
RECURSIVE insertSortedBeforeEquals(_, _)
insertSortedBeforeEquals(sorted, post) ==
    IF sorted = <<>> THEN <<post>>
    ELSE IF Head(sorted).score > post.score
         THEN <<Head(sorted)>> \o insertSortedBeforeEquals(Tail(sorted), post)
         ELSE <<post>> \o sorted

\* insertion of post into a list sorted by descending score, after its equals
RECURSIVE insertSorted(_, _)
insertSorted(sorted, post) ==
    IF sorted = <<>> THEN <<post>>
    ELSE IF Head(sorted).score >= post.score
         THEN <<Head(sorted)>> \o insertSorted(Tail(sorted), post)
         ELSE <<post>> \o sorted

\* Array.prototype.sort((a, b) => b.score - a.score), which is stable
RECURSIVE sortByScore(_)
sortByScore(list) ==
    IF list = <<>> THEN <<>>
    ELSE insertSorted(sortByScore(SubSeq(list, 1, Len(list) - 1)), list[Len(list)])

dedupSort(cat) == [name \in DOMAIN cat |-> sortByScore(dedup(cat[name], {}))]

\* the cache-only response body of the two 429 branches
\* the cached posts grouped by matching their text against the projects
degradedPostsRematched(store, userDoc, dbProjects, t) ==
    LET found == findPosts(store, userDoc.userId, t)
        again == [i \in DOMAIN found |->
                     [found[i] EXCEPT
                         !.project = matchedProjects(Tweets[found[i].postId].text,
                                                     dbProjects)]]
    IN  dedupSort(pushPosts(seedGroups(dbProjects), again))

degradedPosts(store, userDoc, dbProjects, t) ==
    dedupSort(pushPosts(seedGroups(dbProjects), findPosts(store, userDoc.userId, t)))

(***************************************************************************)
(* GET /posts/:username.                                                   *)
(***************************************************************************)
\* the loop state st carries the ledger, the Post store, the groups, the
\* number of tweets the loop has finished, the ids the run has written to
\* the ledger (logged) and to the Post store (saved) and whether a store call
\* has thrown

\* the ledger holds, for each post id, the number of its documents
EmptyLedger == [id \in {} |-> 0]

LedgerIds(entries) == DOMAIN entries

\* an insert that does not look for the document first
insertLedger(entries, id) ==
    [x \in DOMAIN entries \cup {id} |->
        IF x = id THEN (IF id \in DOMAIN entries THEN entries[id] + 1 ELSE 1)
        ELSE entries[x]]

\* ProcessedPost.findOneAndUpdate({postId}, ..., {upsert: true}) under the
\* unique index on postId: the document is updated when there is one and
\* inserted when there is none
upsertLedger(entries, id) ==
    IF id \in DOMAIN entries THEN entries
    ELSE [x \in DOMAIN entries \cup {id} |-> IF x = id THEN 1 ELSE entries[x]]

RECURSIVE CountEntries(_)
CountEntries(entries) ==
    IF DOMAIN entries = {} THEN 0
    ELSE LET id == CHOOSE x \in DOMAIN entries : TRUE
         IN  entries[id] + CountEntries([x \in DOMAIN entries \ {id} |-> entries[x]])

\* a purge that reports nothing deleted
deleteManyUncounted(entries) == [entries |-> EmptyLedger, deletedCount |-> 0]

\* ProcessedPost.deleteMany({}) and result.deletedCount
deleteMany(entries) == [entries |-> EmptyLedger, deletedCount |-> CountEntries(entries)]

\* an exclusion that writes nothing
logProcessedNowhere(st, id) == [st EXCEPT !.done = st.done + 1]

\* ProcessedPost.findOneAndUpdate({postId}, {postId, updatedAt}, {upsert: true})
\* and continue
logProcessed(st, id) ==
    [st EXCEPT !.ledger = upsertLedger(st.ledger, id), !.logged = st.logged \cup {id},
               !.done = st.done + 1]

\* the mention stage excluding at 0.6 as well
mentionHeavyInclusive(text) == 10 * extractMentions(text) >= 6 * Len(text)

\* extractMentions(tweet.text) / tweet.text.length > 0.6
mentionHeavy(text) == 10 * extractMentions(text) > 6 * Len(text)

\* a ledger lookup that finds nothing
alreadyProcessedNever(entries, id) == FALSE

\* await ProcessedPost.findOne({ postId: tweet.id }).lean()
alreadyProcessed(entries, id) == id \in LedgerIds(entries)

\* the Post upsert without the ledger upsert that follows it
storeProcessedUnlogged(st, postData) ==
    [st EXCEPT !.posts = upsertPost(st.posts, postData),
               !.cat = pushPost(st.cat, postData),
               !.saved = st.saved \cup {postData.postId},
               !.done = st.done + 1]

\* lines 1192-1208: Post upsert, ledger upsert, push into the groups
storeProcessed(st, postData) ==
    [st EXCEPT !.ledger = upsertLedger(st.ledger, postData.postId),
               !.logged = st.logged \cup {postData.postId},
               !.posts = upsertPost(st.posts, postData),
               !.cat = pushPost(st.cat, postData),
               !.saved = st.saved \cup {postData.postId},
               !.done = st.done + 1]

\* the loop state before the first tweet
loopStart(entries, store, dbProjects) ==
    [ledger |-> entries, posts |-> store, cat |-> seedGroups(dbProjects),
     done |-> 0, logged |-> {}, saved |-> {}, thrown |-> FALSE]

\* the first three stages of the loop body, lines 1115-1143
filteredOut(tweet) ==
    \/ tweet.type # NoRef /\ tweet.type \notin AllowedRefTypes
    \/ Len(tweet.text) < MinLength
    \/ mentionHeavy(tweet.text)

\* one pass of the for-loop body over tweet
processTweet(st, tweet, userId, username, followersCount, dbProjects) ==
    LET logged == logProcessed(st, tweet.id)
        matched == matchedProjects(tweet.text, dbProjects)
        qualityScore == calculateQualityScore(tweet, followersCount)
        projectBlabz == calculateBlabzPerProject(qualityScore)
        total == totalBlabz(projectBlabz, Len(matched))
        metrics == tweet.public_metrics
        postData ==
            [userId |-> userId, username |-> username, postId |-> tweet.id,
             project |-> matched, score |-> qualityScore,
             blabz |-> BlabzString(total),
             likes |-> IF metrics = NoMetrics THEN 0 ELSE metrics.like_count,
             retweets |-> IF metrics = NoMetrics THEN 0 ELSE metrics.retweet_count,
             replies |-> IF metrics = NoMetrics THEN 0 ELSE metrics.reply_count,
             createdAt |-> tweet.created_at,
             tweetType |-> IF tweet.type = NoRef THEN "main" ELSE tweet.type]
    IN  IF tweet.type # NoRef /\ tweet.type \notin AllowedRefTypes THEN logged
        ELSE IF Len(tweet.text) < MinLength THEN logged
        ELSE IF mentionHeavy(tweet.text) THEN logged
        ELSE IF alreadyProcessed(st.ledger, tweet.id) THEN [st EXCEPT !.done = st.done + 1]
        ELSE IF Len(matched) = 0 THEN logged
        ELSE IF castFails(postData) THEN [st EXCEPT !.thrown = TRUE]
        ELSE storeProcessed(st, postData)

\* for (const tweet of tweets), left when a store call throws
RECURSIVE processTweets(_, _, _, _, _, _)
processTweets(st, tweets, userId, username, followersCount, dbProjects) ==
    IF tweets = <<>> \/ st.thrown THEN st
    ELSE processTweets(
             processTweet(st, Head(tweets), userId, username, followersCount, dbProjects),
             Tail(tweets), userId, username, followersCount, dbProjects)

\* The response, with the facts of the run the properties speak about: rl is
\* the fetch whose 429 was caught ("none" when there was none), doc whether the
\* users collection held the author when it was caught, live whether the
\* timeline was fetched, tweets the ids it returned, done how many of them
\* the loop finished, logged and saved the ids the run wrote to the ledger and
\* to the Post store.
Response(username, status, error) ==
    [username |-> username, status |-> status, error |-> error,
     hasPosts |-> FALSE, posts |-> <<>>, warning |-> FALSE,
     rl |-> "none", doc |-> FALSE, live |-> FALSE, tweets |-> <<>>, done |-> 0,
     logged |-> {}, saved |-> {}, up |-> <<>>, deletedCount |-> NULL]

NoResponse == Response("", 0, "")

\* the ids of what the timeline request returned
Fetched(tweets) == [i \in DOMAIN tweets |-> tweets[i].id]

\* an empty map answered in place of the 503
unavailableEmptyMap(username) ==
    [Response(username, 200, "") EXCEPT !.hasPosts = TRUE, !.rl = "first"]

\* res.status(503): the author fetch was rate limited and no author is cached
unavailable(username) ==
    [Response(username, 503, "Service temporarily unavailable") EXCEPT !.rl = "first"]

\* an empty map answered in place of the 404
noProjectsEmptyMap(username, stage) ==
    [Response(username, 200, "") EXCEPT
        !.hasPosts = TRUE, !.rl = stage, !.doc = (stage # "none")]

\* res.status(404): no project is configured
noProjects(username, stage) ==
    [Response(username, 404, "No projects configured") EXCEPT
        !.rl = stage, !.doc = (stage # "none")]

\* the cached posts answered without the warning
degradedUnmarked(username, stage, store, userDoc, dbProjects) ==
    [Response(username, 200, "") EXCEPT
        !.hasPosts = TRUE,
        !.posts = degradedPosts(store, userDoc, dbProjects, now),
        !.rl = stage,
        !.doc = TRUE]

\* res.json with the cached posts and the warning
degraded(username, stage, store, userDoc, dbProjects) ==
    [Response(username, 200, "") EXCEPT
        !.hasPosts = TRUE,
        !.posts = degradedPosts(store, userDoc, dbProjects, now),
        !.warning = TRUE,
        !.rl = stage,
        !.doc = TRUE]

\* res.json({message, posts: categorizedPosts}) of a live run
retrieved(username, categorizedPosts, tweets, st) ==
    [Response(username, 200, "") EXCEPT
        !.hasPosts = TRUE, !.posts = categorizedPosts,
        !.live = TRUE, !.tweets = Fetched(tweets), !.done = st.done,
        !.logged = st.logged, !.saved = st.saved]

\* the cached answer in place of the error
serverErrorAsCached(username, status) ==
    [Response(username, 200, "") EXCEPT !.hasPosts = TRUE, !.warning = TRUE]

\* the catch of the handler: res.status(err.response?.status || 500)
serverError(username, status) == Response(username, status, "Server error")

\* the same catch after a store call of the loop has thrown
loopFailed(username, tweets, st) ==
    [serverError(username, 500) EXCEPT
        !.live = TRUE, !.tweets = Fetched(tweets), !.done = st.done,
        !.logged = st.logged, !.saved = st.saved]

UpstreamAnswers == {"ok", "notfound", "429", "error"}
TimelineAnswers == {"ok", "429", "error"}

\* the handler of GET /posts/:username.  up1, up2 and upT are the upstream's
\* answers to the first author fetch, the second author fetch and the
\* timeline request; followers and tweets what it returns when it answers.
\* The result holds the new users, ledger, posts, rateLimitUntil and the response.
getPosts(username, up1, up2, upT, followers, tweets) ==
    LET hadUser == username \in DOMAIN users
        \* lines 890-926: the author is fetched and saved on first sight
        f1 == fetchTwitterUser(rateLimitUntil, username, up1, followers)
        users1 ==
            IF hadUser THEN users
            ELSE [h \in DOMAIN users \cup {username} |->
                     IF h = username
                     THEN [userId |-> f1.user.id, followers_count |-> f1.user.followers_count]
                     ELSE users[h]]
        rlu1 == IF hadUser THEN rateLimitUntil ELSE f1.rlu
        reached2 == hadUser \/ (f1.thrown = 0 /\ f1.found)
        \* lines 929-1002: the author is fetched again
        f2 == fetchTwitterUser(rlu1, username, up2, followers)
        userDoc == users1[username]
        dbProjects == projects
        reachedT == reached2 /\ f2.thrown = 0 /\ f2.found /\ Len(dbProjects) > 0
        \* the answers of the upstream to the requests the run has sent it
        calls ==
            (IF ~hadUser /\ f1.network THEN <<up1>> ELSE <<>>)
            \o (IF reached2 /\ f2.network THEN <<up2>> ELSE <<>>)
            \o (IF reachedT THEN <<upT>> ELSE <<>>)
        Result(u, l, p, r, response) ==
            [users |-> u, ledger |-> l, posts |-> p, rlu |-> r,
             res |-> [response EXCEPT !.up = calls]]
        \* lines 1004-1020
        userId == f2.user.id
        followersCount == f2.user.followers_count
        users2 == [users1 EXCEPT ![username] =
                      [userId |-> userId, followers_count |-> followersCount]]
        \* lines 1108-1210
        st0 == loopStart(ledger, posts, dbProjects)
        st == processTweets(st0, tweets, userId, username, followersCount, dbProjects)
        \* lines 1212-1252
        dbPosts == findPosts(st.posts, userId, now)
        categorizedPosts == dedupSort(pushPosts(st.cat, dbPosts))
    IN  IF ~hadUser /\ f1.thrown = 429
        THEN Result(users, ledger, posts, now + Cooldown, unavailable(username))
        ELSE IF ~hadUser /\ f1.thrown # 0
        THEN Result(users, ledger, posts, f1.rlu, serverError(username, f1.thrown))
        ELSE IF ~hadUser /\ ~f1.found
        THEN Result(users, ledger, posts, f1.rlu,
                    Response(username, 404, "Twitter user not found"))
        ELSE IF f2.thrown = 429
        THEN IF Len(dbProjects) = 0
             THEN Result(users1, ledger, posts, now + Cooldown,
                         noProjects(username, "second"))
             ELSE Result(users1, ledger, posts, now + Cooldown,
                         degraded(username, "second", posts, userDoc, dbProjects))
        ELSE IF f2.thrown # 0
        THEN Result(users1, ledger, posts, f2.rlu, serverError(username, f2.thrown))
        ELSE IF ~f2.found
        THEN Result(users1, ledger, posts, f2.rlu,
                    Response(username, 404, "Twitter user not found"))
        ELSE IF Len(dbProjects) = 0
        THEN Result(users2, ledger, posts, f2.rlu, noProjects(username, "none"))
        \* lines 1028-1106: the timeline request does not ask the guard
        ELSE IF upT = "429"
        THEN Result(users2, ledger, posts, now + Cooldown,
                    degraded(username, "timeline", posts, userDoc, dbProjects))
        ELSE IF upT = "error"
        THEN Result(users2, ledger, posts, f2.rlu, serverError(username, 500))
        ELSE IF st.thrown
        THEN Result(users2, st.ledger, st.posts, f2.rlu,
                    loopFailed(username, tweets, st))
        ELSE Result(users2, st.ledger, st.posts, f2.rlu,
                    retrieved(username, categorizedPosts, tweets, st))

(***************************************************************************)
(* Actions.                                                                *)
(***************************************************************************)
\* the subsequences of seq
RECURSIVE SubSeqs(_)
SubSeqs(seq) ==
    IF seq = <<>> THEN {<<>>}
    ELSE LET rest == SubSeqs(Tail(seq))
         IN  rest \cup {<<Head(seq)>> \o r : r \in rest}

\* the tweets the timeline request can return for the author at time t:
\* tweets of the author that exist upstream, not older than start_time
Visible(userId, t) ==
    SelectSeq(TweetOrder, LAMBDA id :
        /\ id \in world.tweets
        /\ Tweets[id].author = userId
        /\ Tweets[id].created_at >= t - Lookback)

\* the timelines: any of the visible tweets, each with its counters
Timelines(userId, t) ==
    {[i \in DOMAIN ids |-> Candidate(ids[i], world.metrics[ids[i]])] :
        ids \in SubSeqs(Visible(userId, t))}

\* the invocations of the handler that can be in progress at once, one that
\* is not in progress, and the upstream requests made so far: the kinds of
\* request issued, each with whether the guard was locked when it was
\* issued, the time of the latest 429 answer and the author it was about
Requests == {"r1", "r2"}
IdleRequest == [pc |-> "idle", username |-> ""]
NoRequests == [r \in Requests |-> IdleRequest]
NoUpstreamLog == [issued |-> {}, last429 |-> NULL, limited |-> "", calm |-> FALSE]

NoCalc == [len |-> 0, metrics |-> NoMetrics, followers |-> 0, score |-> 0, scored |-> FALSE]

Init ==
    /\ world \in Worlds
    /\ users = <<>>
    /\ projects = <<>>
    /\ ledger = EmptyLedger
    /\ posts = <<>>
    /\ rateLimitUntil = NULL
    /\ now = 0
    /\ res = NoResponse
    /\ quiet = FALSE
    /\ calc = NoCalc
    /\ reqs = NoRequests
    /\ upstreamLog = NoUpstreamLog

\* router.get('/posts/:username')
GetPosts ==
    \E username \in world.handles :
    \E up1 \in IF username \in DOMAIN users THEN {"ok"} ELSE UpstreamAnswers :
    \E up2 \in IF up1 = "ok" THEN UpstreamAnswers ELSE {"ok"} :
    \E upT \in IF up2 = "ok" /\ up1 = "ok" THEN TimelineAnswers ELSE {"ok"} :
    \E followers \in world.followers :
    \E tweets \in IF up1 = "ok" /\ up2 = "ok" /\ upT = "ok"
                   THEN Timelines(UserIdOf[username], now) ELSE {<<>>} :
        LET r == getPosts(username, up1, up2, upT, followers, tweets)
        IN  /\ users' = r.users
            /\ ledger' = r.ledger
            /\ posts' = r.posts
            /\ rateLimitUntil' = r.rlu
            /\ res' = r.res
            /\ quiet' = TRUE
            /\ UNCHANGED <<world, projects, now, calc, reqs, upstreamLog>>

\* router.post('/projects'): the project is saved under its upper-cased name
PostProjects ==
    \E name \in world.names, keywords \in KeywordInputs :
        /\ projects' = upsertProject(projects, toUpperCase(name), keywords)
        /\ quiet' = FALSE
        /\ UNCHANGED <<world, users, ledger, posts, rateLimitUntil, now, res, calc,
                       reqs, upstreamLog>>

\* router.delete('/processed-posts'): ProcessedPost.deleteMany({}) and the
\* count of what it deleted in the response
ClearLedger ==
    LET result == deleteMany(ledger)
    IN  /\ ledger' = result.entries
        /\ res' = [Response("", 200, "") EXCEPT !.deletedCount = result.deletedCount]
        /\ quiet' = FALSE
        /\ UNCHANGED <<world, users, projects, posts, rateLimitUntil, now, calc,
                       reqs, upstreamLog>>

\* the upstream raises the counters of a post
Engage ==
    \E id \in world.rising :
        /\ world.metrics[id] # Liked
        /\ world' = [world EXCEPT !.metrics[id] = Liked]
        /\ quiet' = FALSE
        /\ UNCHANGED <<users, projects, ledger, posts, rateLimitUntil, now, res, calc,
                       reqs, upstreamLog>>

\* the clock: a small tick or a week
Instants ==
    {w * Lookback + m * TickMinutes : w \in 0..world.weeks, m \in 0..world.ticks}

Tick ==
    \E d \in {TickMinutes, Lookback} :
        /\ now + d \in Instants
        /\ now' = now + d
        /\ quiet' = FALSE
        /\ UNCHANGED <<world, users, projects, ledger, posts, rateLimitUntil, res, calc,
                       reqs, upstreamLog>>

Next == GetPosts \/ PostProjects \/ ClearLedger \/ Engage \/ Tick

Spec == Init /\ [][Next]_vars

(***************************************************************************)
(* Concurrent invocations of GET /posts/:username: the handler taken apart *)
(* at its upstream calls.  A call is one step (the guard check, where there *)
(* is one, and the request) and its answer another; other invocations and  *)
(* the clock move in between.                                              *)
(***************************************************************************)
\* clock ticks of the concurrent specification, and the minutes of one
MaxClock == 3
ClockStep == 5

\* a guard that unlocks after ten minutes
lockUntilShort(t) == t + 10

\* rateLimitUntil = new Date(Date.now() + 15 * 60 * 1000)
lockUntil(t) == t + Cooldown

\* the upstream log after a request of this kind has been issued
Issued(kind) ==
    [upstreamLog EXCEPT
        !.issued = @ \cup {[kind |-> kind, locked |-> isLocked(rateLimitUntil, now)]}]

\* the upstream log after a 429 answer
Answered429(username) == [upstreamLog EXCEPT !.last429 = now, !.limited = username]

\* the response of the 429 branch of an author fetch
limitedResponse(pc, username) ==
    IF pc \in {"first", "firstWait"} THEN unavailable(username)
    ELSE IF Len(projects) = 0 THEN noProjects(username, "second")
    ELSE degraded(username, "second", posts, users[username], projects)

ConcWorld == World([t1 |-> Liked, t8 |-> Quiet], {"alice", "bob"}, {NameSol}, 0, 0)

InitConc ==
    /\ world = ConcWorld
    /\ users = <<>>
    /\ projects = upsertProject(<<>>, toUpperCase(NameSol), <<StrChain>>)
    /\ ledger = EmptyLedger
    /\ posts = <<>>
    /\ rateLimitUntil = NULL
    /\ now = 0
    /\ res = NoResponse
    /\ quiet = FALSE
    /\ calc = NoCalc
    /\ reqs = NoRequests
    /\ upstreamLog = NoUpstreamLog

\* line 890: the handler starts and looks the author up in the users collection
Begin(r) ==
    /\ reqs[r].pc = "idle"
    /\ \E username \in world.handles :
           reqs' = [reqs EXCEPT ![r] =
                       [pc |-> IF username \in DOMAIN users THEN "second" ELSE "first",
                        username |-> username]]
    /\ UNCHANGED <<world, users, projects, ledger, posts, rateLimitUntil, now, res,
                   quiet, calc, upstreamLog>>

\* lines 895 and 931, fetchTwitterUser lines 476-487: the guard is asked, and
\* the request goes out when it is not locked
CallAuthor(r) ==
    /\ reqs[r].pc \in {"first", "second"}
    /\ IF isLocked(rateLimitUntil, now)
       THEN /\ rateLimitUntil' = lockUntil(now)
            /\ res' = limitedResponse(reqs[r].pc, reqs[r].username)
            /\ reqs' = [reqs EXCEPT ![r] = IdleRequest]
            /\ UNCHANGED upstreamLog
       ELSE /\ upstreamLog' = Issued("author")
            /\ reqs' = [reqs EXCEPT ![r].pc =
                           IF reqs[r].pc = "first" THEN "firstWait" ELSE "secondWait"]
            /\ UNCHANGED <<rateLimitUntil, res>>
    /\ UNCHANGED <<world, users, projects, ledger, posts, now, quiet, calc>>

\* fetchTwitterUser lines 488-496 and the handler up to its next upstream call
AuthorAnswer(r) ==
    /\ reqs[r].pc \in {"firstWait", "secondWait"}
    /\ \E up \in UpstreamAnswers, followers \in FollowerCounts :
        LET username == reqs[r].username
            saved == [h \in DOMAIN users \cup {username} |->
                         IF h = username
                         THEN [userId |-> UserIdOf[username], followers_count |-> followers]
                         ELSE users[h]]
        IN  CASE up = "429" ->
                    /\ rateLimitUntil' = lockUntil(now)
                    /\ upstreamLog' = Answered429(username)
                    /\ res' = limitedResponse(reqs[r].pc, username)
                    /\ reqs' = [reqs EXCEPT ![r] = IdleRequest]
                    /\ UNCHANGED users
              [] up = "error" ->
                    /\ res' = serverError(username, 500)
                    /\ reqs' = [reqs EXCEPT ![r] = IdleRequest]
                    /\ UNCHANGED <<users, rateLimitUntil, upstreamLog>>
              [] up = "notfound" ->
                    /\ res' = Response(username, 404, "Twitter user not found")
                    /\ reqs' = [reqs EXCEPT ![r] = IdleRequest]
                    /\ UNCHANGED <<users, rateLimitUntil, upstreamLog>>
              [] up = "ok" /\ reqs[r].pc = "firstWait" ->
                    /\ users' = saved
                    /\ reqs' = [reqs EXCEPT ![r].pc = "second"]
                    /\ UNCHANGED <<rateLimitUntil, upstreamLog, res>>
              [] up = "ok" /\ reqs[r].pc = "secondWait" ->
                    /\ users' = saved
                    /\ IF Len(projects) = 0
                       THEN /\ res' = noProjects(username, "none")
                            /\ reqs' = [reqs EXCEPT ![r] = IdleRequest]
                       ELSE /\ reqs' = [reqs EXCEPT ![r].pc = "timeline"]
                            /\ UNCHANGED res
                    /\ UNCHANGED <<rateLimitUntil, upstreamLog>>
    /\ UNCHANGED <<world, projects, ledger, posts, now, quiet, calc>>

\* lines 1029-1040: the timeline request goes out; the guard is not asked
CallTimeline(r) ==
    /\ reqs[r].pc = "timeline"
    /\ upstreamLog' = Issued("timeline")
    /\ reqs' = [reqs EXCEPT ![r].pc = "timelineWait"]
    /\ UNCHANGED <<world, users, projects, ledger, posts, rateLimitUntil, now, res,
                   quiet, calc>>

\* lines 1041-1258: the answer to the timeline request and the rest of the run
TimelineAnswer(r) ==
    /\ reqs[r].pc = "timelineWait"
    /\ \E upT \in TimelineAnswers :
       \E tweets \in IF upT = "ok" THEN Timelines(UserIdOf[reqs[r].username], now)
                      ELSE {<<>>} :
        LET username == reqs[r].username
            userDoc == users[username]
            st0 == loopStart(ledger, posts, projects)
            st == processTweets(st0, tweets, userDoc.userId, username,
                                userDoc.followers_count, projects)
            categorizedPosts ==
                dedupSort(pushPosts(st.cat, findPosts(st.posts, userDoc.userId, now)))
        IN  CASE upT = "429" ->
                    /\ rateLimitUntil' = lockUntil(now)
                    /\ upstreamLog' = Answered429(username)
                    /\ res' = degraded(username, "timeline", posts, userDoc, projects)
                    /\ UNCHANGED <<ledger, posts>>
              [] upT = "error" ->
                    /\ res' = serverError(username, 500)
                    /\ UNCHANGED <<ledger, posts, rateLimitUntil, upstreamLog>>
              [] upT = "ok" ->
                    /\ ledger' = st.ledger
                    /\ posts' = st.posts
                    /\ res' = IF st.thrown THEN loopFailed(username, tweets, st)
                              ELSE retrieved(username, categorizedPosts, tweets, st)
                    /\ UNCHANGED <<rateLimitUntil, upstreamLog>>
    /\ reqs' = [reqs EXCEPT ![r] = IdleRequest]
    /\ UNCHANGED <<world, users, projects, now, quiet, calc>>

\* the clock of the concurrent specification
ConcTick ==
    /\ now < MaxClock * ClockStep
    /\ now' = now + ClockStep
    /\ UNCHANGED <<world, users, projects, ledger, posts, rateLimitUntil, res, quiet,
                   calc, reqs, upstreamLog>>

NextConc ==
    \/ \E r \in Requests : Begin(r)
    \/ \E r \in Requests : CallAuthor(r)
    \/ \E r \in Requests : AuthorAnswer(r)
    \/ \E r \in Requests : CallTimeline(r)
    \/ \E r \in Requests : TimelineAnswer(r)
    \/ ConcTick

SpecConc == InitConc /\ [][NextConc]_vars

(***************************************************************************)
(* The loop of the handler, one store call at a time.  Every await of      *)
(* lines 1113-1216 is a step, so that two invocations that have fetched    *)
(* their timelines interleave between the ledger read, the Post upsert and *)
(* the ledger upsert.  An invocation in the loop holds its tweets, the     *)
(* index k of the tweet it is at, its groups, the ids it has written, and  *)
(* raced: whether another invocation has inserted the document its pending *)
(* upsert is about since the upsert was issued.                            *)
(***************************************************************************)
LoopWorld == World([t1 |-> Liked, t5 |-> Quiet, t7 |-> Quiet], {"alice"}, {NameSol}, 0, 0)
LoopAuthor == "alice"

InitLoop ==
    /\ world = LoopWorld
    /\ users = [h \in {LoopAuthor} |->
                   [userId |-> UserIdOf[LoopAuthor], followers_count |-> 1000]]
    /\ projects = upsertProject(<<>>, toUpperCase(NameSol), <<StrChain>>)
    /\ ledger = EmptyLedger
    /\ posts = <<>>
    /\ rateLimitUntil = NULL
    /\ now = 0
    /\ res = NoResponse
    /\ quiet = FALSE
    /\ calc = NoCalc
    /\ reqs = NoRequests
    /\ upstreamLog = NoUpstreamLog

\* the tweet the invocation is at
tweetAt(run) == run.tweets[run.k]

\* where the loop stands at tweet k: past the last tweet it goes on to
\* Post.find, a tweet the first three stages exclude is logged, and any
\* other is looked up in the ledger
stageOf(run) ==
    IF run.k > Len(run.tweets) THEN "find"
    ELSE IF filteredOut(tweetAt(run)) THEN "logOnly"
    ELSE "ledgerRead"

\* continue: the next tweet
advance(run) ==
    LET n == [run EXCEPT !.k = run.k + 1, !.raced = FALSE]
    IN  [n EXCEPT !.pc = stageOf(n)]

\* the ledger upsert of a stored post ahead of its Post upsert
storeStepsLedgerFirst == <<"log", "post">>

\* lines 1192-1201: the Post upsert, then the ledger upsert
storeSteps == <<"post", "log">>

\* the invocation after one of the two upserts of a stored post
nextStore(run) ==
    IF run.pc = storeSteps[1] THEN [run EXCEPT !.pc = storeSteps[2], !.raced = FALSE]
    ELSE advance(run)

\* the collection and the id of the upsert the invocation is waiting for
pending(run) ==
    IF run.pc = "post" THEN <<"Post", tweetAt(run).id>>
    ELSE IF run.pc \in {"logOnly", "log"} THEN <<"ProcessedPost", tweetAt(run).id>>
    ELSE <<"", "">>

\* an upsert of r that inserts overtakes the pending upserts of the same
\* document
overtake(r, inserted) ==
    [q \in Requests |->
        IF q # r /\ inserted /\ pending(reqs[q]) = pending(reqs[r])
        THEN [reqs[q] EXCEPT !.raced = TRUE]
        ELSE reqs[q]]

\* the loop body over the tweet the invocation is at, on these ledger
\* entries and this Post store
body(run, entries, store) ==
    processTweet([ledger |-> entries, posts |-> store, cat |-> run.cat, done |-> 0,
                  logged |-> {}, saved |-> {}, thrown |-> FALSE],
                 tweetAt(run), users[run.username].userId, run.username,
                 users[run.username].followers_count, projects)

\* what the run reports of its loop
loopReport(run) ==
    [done |-> run.k - 1, logged |-> run.logged, saved |-> run.saved]

\* lines 890-1112 with every upstream call answered: the timeline is there
StartLoop(r) ==
    /\ reqs[r].pc = "idle"
    /\ \E tweets \in Timelines(users[LoopAuthor].userId, now) :
        LET run == [pc |-> "start", username |-> LoopAuthor, tweets |-> tweets, k |-> 1,
                    cat |-> seedGroups(projects), logged |-> {}, saved |-> {},
                    raced |-> FALSE]
        IN  reqs' = [reqs EXCEPT ![r] = [run EXCEPT !.pc = stageOf(run)]]
    /\ UNCHANGED <<world, users, projects, ledger, posts, rateLimitUntil, now, res,
                   quiet, calc, upstreamLog>>

\* lines 1116, 1126, 1136 and 1159: the ledger upsert of a tweet that is
\* not stored
LogOnly(r) ==
    LET run == reqs[r]
        id == tweetAt(run).id
    IN  /\ run.pc = "logOnly"
        /\ ledger' = upsertLedger(ledger, id)
        /\ reqs' = [overtake(r, id \notin LedgerIds(ledger)) EXCEPT
                       ![r] = advance([run EXCEPT !.logged = run.logged \cup {id}])]
        /\ UNCHANGED <<world, users, projects, posts, rateLimitUntil, now, res, quiet,
                       calc, upstreamLog>>

\* lines 1145-1190: the ledger read, and the matcher and the scorer after it
LedgerRead(r) ==
    LET run == reqs[r]
        id == tweetAt(run).id
        st == body(run, ledger, posts)
    IN  /\ run.pc = "ledgerRead"
        /\ IF st.thrown
           THEN /\ reqs' = [reqs EXCEPT ![r] = IdleRequest]
                /\ res' = loopFailed(run.username, run.tweets, loopReport(run))
           ELSE IF id \in st.saved
           THEN reqs' = [reqs EXCEPT ![r].pc = storeSteps[1]] /\ UNCHANGED res
           ELSE IF id \in st.logged
           THEN reqs' = [reqs EXCEPT ![r].pc = "logOnly"] /\ UNCHANGED res
           ELSE reqs' = [reqs EXCEPT ![r] = advance(run)] /\ UNCHANGED res
        /\ UNCHANGED <<world, users, projects, ledger, posts, rateLimitUntil, now, quiet,
                       calc, upstreamLog>>

\* lines 1192-1196: the Post upsert
PostUpsert(r) ==
    LET run == reqs[r]
        id == tweetAt(run).id
    IN  /\ run.pc = "post"
        /\ posts' = body(run, EmptyLedger, posts).posts
        /\ reqs' = [overtake(r, id \notin {posts[i].postId : i \in DOMAIN posts})
                       EXCEPT ![r] = nextStore(run)]
        /\ UNCHANGED <<world, users, projects, ledger, rateLimitUntil, now, res, quiet,
                       calc, upstreamLog>>

\* lines 1197-1208: the ledger upsert of a stored post and the push into the
\* groups
LogStored(r) ==
    LET run == reqs[r]
        id == tweetAt(run).id
    IN  /\ run.pc = "log"
        /\ ledger' = upsertLedger(ledger, id)
        /\ reqs' = [overtake(r, id \notin LedgerIds(ledger)) EXCEPT
                       ![r] = nextStore([run EXCEPT
                                            !.cat = body(run, EmptyLedger, posts).cat,
                                            !.logged = run.logged \cup {id},
                                            !.saved = run.saved \cup {id}])]
        /\ UNCHANGED <<world, users, projects, posts, rateLimitUntil, now, res, quiet,
                       calc, upstreamLog>>

\* an upsert that another invocation has overtaken fails on the unique index
\* with a duplicate key error, and the catch of the handler answers
DuplicateKey(r) ==
    LET run == reqs[r]
    IN  /\ run.pc \in {"logOnly", "post", "log"}
        /\ run.raced
        /\ reqs' = [reqs EXCEPT ![r] = IdleRequest]
        /\ res' = loopFailed(run.username, run.tweets, loopReport(run))
        /\ UNCHANGED <<world, users, projects, ledger, posts, rateLimitUntil, now, quiet,
                       calc, upstreamLog>>

\* the store fails the call the invocation is waiting for, and the catch of
\* the handler answers
StoreFails(r) ==
    LET run == reqs[r]
    IN  /\ run.pc \in {"logOnly", "ledgerRead", "post", "log", "find"}
        /\ reqs' = [reqs EXCEPT ![r] = IdleRequest]
        /\ res' = loopFailed(run.username, run.tweets, loopReport(run))
        /\ UNCHANGED <<world, users, projects, ledger, posts, rateLimitUntil, now, quiet,
                       calc, upstreamLog>>

\* lines 1212-1258: Post.find, the groups and the response
FindPosts(r) ==
    LET run == reqs[r]
        dbPosts == findPosts(posts, users[run.username].userId, now)
    IN  /\ run.pc = "find"
        /\ res' = retrieved(run.username, dedupSort(pushPosts(run.cat, dbPosts)),
                            run.tweets, loopReport(run))
        /\ reqs' = [reqs EXCEPT ![r] = IdleRequest]
        /\ UNCHANGED <<world, users, projects, ledger, posts, rateLimitUntil, now, quiet,
                       calc, upstreamLog>>

NextLoop ==
    \/ \E r \in Requests : StartLoop(r)
    \/ \E r \in Requests : LogOnly(r)
    \/ \E r \in Requests : LedgerRead(r)
    \/ \E r \in Requests : PostUpsert(r)
    \/ \E r \in Requests : LogStored(r)
    \/ \E r \in Requests : DuplicateKey(r)
    \/ \E r \in Requests : StoreFails(r)
    \/ \E r \in Requests : FindPosts(r)

SpecLoop == InitLoop /\ [][NextLoop]_vars

\* the same with the purge of the ledger between any two store calls
NextPurge == NextLoop \/ ClearLedger

SpecPurge == InitLoop /\ [][NextPurge]_vars

(***************************************************************************)
(* The guard over unbounded time.  The clock is kept relative to the        *)
(* present: now stays 0 and the passing of ClockStep minutes moves           *)
(* rateLimitUntil back by as much, down to 0, where the guard is unlocked.   *)
(* upstreamLog.calm tells that the upstream has stopped answering 429.       *)
(* Callers keep asking and time keeps passing: both are weakly fair.         *)
(***************************************************************************)
\* what the upstream may answer to a request
liveAnswers == IF upstreamLog.calm THEN {"ok"} ELSE {"ok", "429"}

\* router.get('/posts/:username'), the upstream answering or rate limiting
LiveGet ==
    \E username \in world.handles :
    \E up1 \in IF username \in DOMAIN users THEN {"ok"} ELSE liveAnswers :
    \E up2 \in IF up1 = "ok" THEN liveAnswers ELSE {"ok"} :
    \E upT \in IF up2 = "ok" /\ up1 = "ok" THEN liveAnswers ELSE {"ok"} :
    \E followers \in world.followers :
    \E tweets \in IF up1 = "ok" /\ up2 = "ok" /\ upT = "ok"
                   THEN Timelines(UserIdOf[username], now) ELSE {<<>>} :
        LET r == getPosts(username, up1, up2, upT, followers, tweets)
        IN  /\ users' = r.users
            /\ ledger' = r.ledger
            /\ posts' = r.posts
            /\ rateLimitUntil' = r.rlu
            /\ res' = r.res
            /\ quiet' = TRUE
            /\ UNCHANGED <<world, projects, now, calc, reqs, upstreamLog>>

\* from here on the upstream answers no 429
Calm ==
    /\ ~upstreamLog.calm
    /\ upstreamLog' = [upstreamLog EXCEPT !.calm = TRUE]
    /\ quiet' = FALSE
    /\ UNCHANGED <<world, users, projects, ledger, posts, rateLimitUntil, now, res, calc,
                   reqs>>

\* ClockStep minutes pass
LiveTick ==
    /\ rateLimitUntil' = IF rateLimitUntil = NULL THEN NULL
                         ELSE Max(rateLimitUntil - ClockStep, 0)
    /\ quiet' = FALSE
    /\ UNCHANGED <<world, users, projects, ledger, posts, now, res, calc, reqs,
                   upstreamLog>>

NextLive == LiveGet \/ Calm \/ LiveTick

SpecLive == InitConc /\ [][NextLive]_vars /\ WF_vars(LiveGet) /\ WF_vars(LiveTick)

(***************************************************************************)
(* Properties of the pipeline (specification Spec).                        *)
(***************************************************************************)
StoredIds(store) == {store[i].postId : i \in DOMAIN store}
GroupIds(cat, name) == {cat[name][i].postId : i \in DOMAIN cat[name]}
GroupsOf(cat, id) == {name \in DOMAIN cat : id \in GroupIds(cat, name)}
EntryOf(cat, name, id) == CHOOSE e \in Range(cat[name]) : e.postId = id
Listing(cat) ==
    [name \in DOMAIN cat |->
        [i \in DOMAIN cat[name] |->
            [postId |-> cat[name][i].postId, score |-> cat[name][i].score,
             project |-> cat[name][i].project]]]
NonEmpty(cat) == \E name \in DOMAIN cat : cat[name] # <<>>
InWindow(post) == post.createdAt >= now - Lookback
DensityOk(text) == 10 * extractMentions(text) <= 6 * Len(text)

\* C1: two runs in a row for the same author, the upstream returning the
\* same posts both times and nothing else happening in between, give the same
\* categorized result (same post ids, scores and projects in each group, in
\* the same order), leave the ledger as it was and no post id stored twice.
C1_Idempotent ==
    [][(/\ quiet /\ quiet'
        /\ res.live /\ res.status = 200
        /\ res'.live /\ res'.status = 200
        /\ res'.username = res.username
        /\ res'.tweets = res.tweets)
       => /\ Listing(res'.posts) = Listing(res.posts)
          /\ ledger' = ledger
          /\ \A i, j \in DOMAIN posts' :
                 posts'[i].postId = posts'[j].postId => i = j]_vars

C3_LengthBoundary ==
    [][(quiet' /\ res'.live)
       => \A k \in DOMAIN res'.tweets :
             LET id == res'.tweets[k]
                 tw == Tweets[id]
             IN  /\ Len(tw.text) <= 50
                        => id \in LedgerIds(ledger') /\ id \notin StoredIds(posts')
                 /\ (/\ Len(tw.text) = 51
                     /\ tw.type \in {NoRef, "quoted"}
                     /\ DensityOk(tw.text)
                     /\ id \notin LedgerIds(ledger)
                     /\ Len(matchedProjects(tw.text, projects)) > 0)
                        => id \in StoredIds(posts')]_vars

\* C6: every stored post and every post of a response carries a total reward
\* of k times u ten-thousandths, where k is the number of its projects and u
\* is score/300 rounded to four decimals (|3u - 100*score| <= 1); the post of
\* score 30 matching two projects carries 2 * 0.1000.
RewardOk(post) ==
    \E u \in (33 * post.score)..(34 * post.score) :
        /\ 3 * u - 100 * post.score \in -1..1
        /\ post.blabz.units = u * Len(post.project)
C6_Reward ==
    /\ \A i \in DOMAIN posts : RewardOk(posts[i])
    /\ \A name \in DOMAIN res.posts : \A i \in DOMAIN res.posts[name] :
           RewardOk(res.posts[name][i])

\* C6 witness: a stored post of score 30 with two projects and total 0.2000
C6_TwoProjectsStored ==
    \E i \in DOMAIN posts :
        /\ Len(posts[i].project) = 2
        /\ posts[i].score = 30
        /\ posts[i].blabz.units = 2000

\* C7: in a response with a map, every stored post of the author within the
\* lookback window is in the groups of exactly its matched projects, with
\* the same fields in each.
C7_InEveryMatchedGroup ==
    (quiet /\ res.status = 200 /\ res.hasPosts) =>
        \A i \in DOMAIN posts :
            (posts[i].username = res.username /\ InWindow(posts[i])) =>
                LET id == posts[i].postId
                    groups == GroupsOf(res.posts, id)
                IN  /\ groups = Range(posts[i].project)
                    /\ Cardinality(groups) = Len(posts[i].project)
                    /\ \A g, h \in groups :
                           EntryOf(res.posts, g, id) = EntryOf(res.posts, h, id)

\* C8: when the first author fetch is rate limited and the users collection
\* does not hold the author, the response is 503 and carries no map.
C8_Unavailable ==
    (res.rl # "none" /\ ~res.doc) => (res.status = 503 /\ ~res.hasPosts)

\* C8 witness: a call for an unknown author was rate limited
C8_UnknownAuthorLimited ==
    /\ quiet /\ res.rl = "first" /\ res.status = 503
    /\ res.username \notin DOMAIN users

C10_MarkerIffNotLive ==
    (res.status = 200 /\ res.hasPosts) => (res.warning <=> ~res.live)

\* C10 witness: the timeline request was rate limited and stored posts were
\* answered with the warning
C10_StaleMarked ==
    /\ quiet /\ res.rl = "timeline" /\ ~res.live
    /\ res.status = 200 /\ res.warning
    /\ NonEmpty(res.posts)

\* the candidate passes the reference-type and length stages of the loop
PassesFirstTwo(tw) ==
    tw.type \in {NoRef, "quoted", "replied_to"} /\ Len(tw.text) > 50

\* the entries of a map that carry this post id
EntriesOf(cat, id) ==
    UNION {{cat[name][i] : i \in {j \in DOMAIN cat[name] : cat[name][j].postId = id}} :
              name \in DOMAIN cat}

\* an entry pushed by the loop of this run carries the reward as the string
\* of toFixed(4); an entry read from the Post store carries the number
Fresh(entry) == entry.blabz.repr = "string"

C15_MentionDensity ==
    [][(quiet' /\ res'.live)
       => /\ extractMentions(Tweets["t6"].text) = 41
          /\ extractMentions(Tweets["t9"].text) = 36
          /\ \A k \in 1..res'.done :
                LET id == res'.tweets[k]
                    tw == Tweets[id]
                    m == extractMentions(tw.text)
                IN  PassesFirstTwo(tw) =>
                        /\ (10 * m > 6 * Len(tw.text))
                               => /\ id \in LedgerIds(ledger') /\ id \in res'.logged
                                  /\ id \notin StoredIds(posts')
                                  /\ EntriesOf(res'.posts, id) = {}
                        /\ (/\ 10 * m <= 6 * Len(tw.text)
                            /\ id \notin LedgerIds(ledger)
                            /\ Len(matchedProjects(tw.text, projects)) > 0)
                               => id \in StoredIds(posts') /\ id \in res'.saved]_vars

\* C15 witness: one completed live run excluded the post at 0.683 and stored
\* the post at exactly 0.6
C15_BoundaryKept ==
    /\ quiet /\ res.live /\ res.status = 200
    /\ "t6" \in res.logged /\ "t6" \notin StoredIds(posts)
    /\ "t9" \in res.saved /\ "t9" \in StoredIds(posts)

\* C16: a candidate that passes the reference, length and mention stages and
\* has a ledger entry is skipped: the run writes neither the ledger nor the
\* Post store for it, and an entry for it in the output comes from the store,
\* not from this pass.
C16_SkippedSilently ==
    [][(quiet' /\ res'.live)
       => \A k \in 1..res'.done :
             LET id == res'.tweets[k]
                 tw == Tweets[id]
             IN  (PassesFirstTwo(tw) /\ DensityOk(tw.text) /\ id \in LedgerIds(ledger))
                     => /\ id \notin res'.logged
                        /\ id \notin res'.saved
                        /\ \A i \in DOMAIN posts :
                               posts[i].postId = id => posts'[i] = posts[i]
                        /\ (id \in StoredIds(posts')) <=> (id \in StoredIds(posts))
                        /\ \A e \in EntriesOf(res'.posts, id) : ~Fresh(e)]_vars

\* C16 witness: a live run met a stored post again and answered it from the
\* store
C16_MetAgain ==
    /\ quiet /\ res.live /\ res.status = 200
    /\ "t1" \in Range(res.tweets)
    /\ "t1" \in LedgerIds(ledger) /\ "t1" \notin res.logged /\ "t1" \notin res.saved
    /\ \E e \in EntriesOf(res.posts, "t1") : ~Fresh(e)

\* C17: after a live run has completed, every candidate the timeline
\* returned has a ledger entry, written by this run unless it was there.
C17_AllLogged ==
    [][(quiet' /\ res'.live /\ res'.status = 200)
       => \A k \in DOMAIN res'.tweets :
             /\ res'.tweets[k] \in LedgerIds(ledger')
             /\ res'.tweets[k] \notin LedgerIds(ledger) => res'.tweets[k] \in res'.logged]_vars

\* C17 witness: a completed live run over an excluded and a stored post
C17_ExcludedAndStoredLogged ==
    /\ quiet /\ res.live /\ res.status = 200
    /\ res.tweets = <<"t3", "t5">>
    /\ res.logged = {"t3", "t5"}
    /\ res.saved = {"t3"}

\* C18: no group of a response holds a post id twice, and a post stored by
\* the run that answers is in its groups as the entry of this pass.
C18_FirstOccurrenceKept ==
    (quiet /\ res.status = 200 /\ res.hasPosts) =>
        /\ \A name \in DOMAIN res.posts : \A i, j \in DOMAIN res.posts[name] :
               res.posts[name][i].postId = res.posts[name][j].postId => i = j
        /\ \A id \in res.saved :
               /\ EntriesOf(res.posts, id) # {}
               /\ \A e \in EntriesOf(res.posts, id) : Fresh(e)

\* C18 witness: the post of this pass is also in the store the run read, and
\* the group holds it once
C18_FreshAndStored ==
    /\ quiet /\ res.live /\ res.status = 200
    /\ "t10" \in res.saved
    /\ \E i \in DOMAIN posts : posts[i].postId = "t10" /\ posts[i].tweetType = "main"
    /\ \E name \in DOMAIN res.posts :
           Cardinality({i \in DOMAIN res.posts[name] :
                           res.posts[name][i].postId = "t10"}) = 1

\* position of the post id in a sequence of ids or of posts (0 when absent)
IndexOfId(ids, id) ==
    IF \E i \in DOMAIN ids : ids[i] = id THEN CHOOSE i \in DOMAIN ids : ids[i] = id ELSE 0

\* C19: every group is in non-increasing order of score, and of two entries
\* of equal score the earlier one was met first: entries of this pass in the
\* order of the timeline, before stored entries in the order of the store.
C19_SortedStable ==
    (quiet /\ res.status = 200 /\ res.hasPosts) =>
        \A name \in DOMAIN res.posts : \A i, j \in DOMAIN res.posts[name] :
            LET a == res.posts[name][i]
                b == res.posts[name][j]
                storeIds == [k \in DOMAIN posts |-> posts[k].postId]
            IN  i < j =>
                    /\ a.score >= b.score
                    /\ a.score = b.score =>
                           \/ Fresh(a) /\ ~Fresh(b)
                           \/ /\ Fresh(a) /\ Fresh(b)
                              /\ IndexOfId(res.tweets, a.postId)
                                     < IndexOfId(res.tweets, b.postId)
                           \/ /\ ~Fresh(a) /\ ~Fresh(b)
                              /\ IndexOfId(storeIds, a.postId)
                                     < IndexOfId(storeIds, b.postId)

\* C19 witness: a post of this pass stands before a stored post of the same
\* score that the store holds before it
C19_TieFreshFirst ==
    /\ quiet /\ res.live /\ res.status = 200
    /\ [k \in DOMAIN posts |-> posts[k].postId] = <<"t10", "t3">>
    /\ res.saved = {"t3"}
    /\ \E name \in DOMAIN res.posts :
           /\ Len(res.posts[name]) = 2
           /\ res.posts[name][1].postId = "t3"
           /\ res.posts[name][2].postId = "t10"
           /\ res.posts[name][1].score = res.posts[name][2].score

\* C20: the keys of the map of a response, live or from the store, are the
\* upper-cased names of the configured projects, each with a list.
C20_KeysAreProjects ==
    (quiet /\ res.status = 200 /\ res.hasPosts) =>
        DOMAIN res.posts = {toUpperCase(projects[i].name) : i \in DOMAIN projects}

\* C20 witness: two projects are configured and the response holds a post
\* under one and an empty list under the other
C20_EmptyGroupPresent ==
    /\ quiet /\ res.status = 200 /\ res.hasPosts
    /\ Len(projects) = 2
    /\ \E g, h \in DOMAIN res.posts : res.posts[g] = <<>> /\ res.posts[h] # <<>>

\* C21: in every response with a map, every post stored for the author as
\* an original post or a quote-post and created within the lookback window is
\* in the group of each of its matched projects.
C21_StoredPostsServed ==
    (quiet /\ res.status = 200 /\ res.hasPosts) =>
        \A i \in DOMAIN posts :
            (/\ posts[i].userId = users[res.username].userId
             /\ InWindow(posts[i])
             /\ posts[i].tweetType \in {"main", "quoted"})
                => \A name \in Range(posts[i].project) :
                       posts[i].postId \in GroupIds(res.posts, name)

(***************************************************************************)
(* Properties of the guard (specification SpecConc).                       *)
(***************************************************************************)
\* C11: no upstream request, author fetch or timeline fetch, is issued while
\* the guard is locked, in any interleaving of invocations.
C11_NoRequestWhileLocked == \A e \in upstreamLog.issued : ~e.locked

\* C12: during the 15 minutes after an upstream 429 answer the guard is
\* locked, and an author fetch for any author made in that time issues no
\* request and ends its invocation with the rate-limited response.
C12_LockedForCooldown ==
    [][(upstreamLog'.last429 # NULL /\ now' < upstreamLog'.last429 + Cooldown)
       => /\ isLocked(rateLimitUntil', now')
          /\ \A r \in Requests :
                 (reqs[r].pc \in {"first", "second"} /\ reqs'[r] # reqs[r])
                     => /\ upstreamLog' = upstreamLog
                        /\ reqs'[r].pc = "idle"
                        /\ res'.username = reqs[r].username
                        /\ res'.rl = reqs[r].pc]_vars

\* C12 witness: ten minutes after a 429 answer to a request about alice, an
\* invocation for bob was refused by the guard
C12_OtherAuthorRefused ==
    /\ upstreamLog.last429 = 0 /\ upstreamLog.limited = "alice"
    /\ now = 2 * ClockStep
    /\ isLocked(rateLimitUntil, now)
    /\ res.username = "bob" /\ res.rl = "first" /\ res.status = 503

(***************************************************************************)
(* The scorer alone: Init draws a tweet and a follower count, Score applies *)
(* calculateQualityScore to them.                                          *)
(***************************************************************************)
ScoreLens == {0, 50, 51, 80, 150, 249, 250, MaxScoreLen}
ScoreMetrics ==
    {NoMetrics}
        \cup [like_count : {0, 10, 500}, retweet_count : {0, 5},
              quote_count : {0, 2}, reply_count : {0, 1}]
ScoreFollowers == {0, 1, 26, 1000}

InitScore ==
    /\ world \in {World([t1 |-> Quiet], {}, {}, 0, 0)}
    /\ users = <<>>
    /\ projects = <<>>
    /\ ledger = EmptyLedger
    /\ posts = <<>>
    /\ rateLimitUntil = NULL
    /\ now = 0
    /\ res = NoResponse
    /\ quiet = FALSE
    /\ calc \in [len : ScoreLens, metrics : ScoreMetrics, followers : ScoreFollowers,
                 score : {0}, scored : {FALSE}]
    /\ reqs = NoRequests
    /\ upstreamLog = NoUpstreamLog

Score ==
    /\ ~calc.scored
    /\ calc' = [calc EXCEPT
                   !.score = calculateQualityScore(
                                 [text |-> Pad(<<>>, calc.len, "x"),
                                  public_metrics |-> calc.metrics],
                                 calc.followers),
                   !.scored = TRUE]
    /\ UNCHANGED <<world, users, projects, ledger, posts, rateLimitUntil, now, res, quiet,
                   reqs, upstreamLog>>

NextScore == Score

SpecScore == InitScore /\ [][NextScore]_vars

(***************************************************************************)
(* Properties of the scorer (specification SpecScore).                     *)
(***************************************************************************)
\* C4: every score the scorer computes, for every text length, counters and
\* follower count, absent counters included, is an integer from 1 to 100.
C4_ScoreInRange == calc.scored => calc.score \in 1..100

\* C5: with counters present the score is
\* round((0.25 + 0.25*clamp((len-50)/200,0,1)
\*             + 0.25*clamp((likes+2*reshares+3*quotes)/max(1,followers),0,1)) * 99) + 1,
\* stated as: score - 1 is the integer r with r - 1/2 <= x < r + 1/2 for that
\* product x = xNum / xDen; and the 80-character post with 10 likes, 5
\* reshares, 2 quote-shares by an author with 1000 followers scores 30.
C5_ScoreFormula ==
    (calc.scored /\ calc.metrics # NoMetrics) =>
        LET len200 == IF calc.len <= 50 THEN 0
                      ELSE IF calc.len >= 250 THEN 200 ELSE calc.len - 50
            raw == calc.metrics.like_count + 2 * calc.metrics.retweet_count
                       + 3 * calc.metrics.quote_count
            den == IF calc.followers >= 1 THEN calc.followers ELSE 1
            eng == IF raw <= 0 THEN 0 ELSE IF raw >= den THEN den ELSE raw
            xNum == 99 * (200 * den + len200 * den + 200 * eng)
            xDen == 800 * den
            r == calc.score - 1
        IN  /\ (2 * r - 1) * xDen <= 2 * xNum
            /\ 2 * xNum < (2 * r + 1) * xDen
            /\ (calc.len = 80 /\ calc.metrics = Liked /\ calc.followers = 1000)
                   => calc.score = 30

\* the weighted engagement of counters that are present
Weighted(m) == m.like_count + 2 * m.retweet_count + 3 * m.quote_count

\* the counters present in the inputs, and m2 at least m in every counter
PresentMetrics == ScoreMetrics \ {NoMetrics}
AtLeast(m2, m) ==
    /\ m2.like_count >= m.like_count
    /\ m2.retweet_count >= m.retweet_count
    /\ m2.quote_count >= m.quote_count
    /\ m2.reply_count >= m.reply_count

\* the score of a text of that length with those counters and followers
ScoreOf(len, m, followers) ==
    calculateQualityScore([text |-> Pad(<<>>, len, "x"), public_metrics |-> m], followers)

\* the score is from 26 to 75, is 26 for at most 50 characters over zero
\* engagement, and does not decrease with the length or with a counter
ScoreBand ==
    /\ calc.score \in 26..75
    /\ (calc.len <= 50 /\ Weighted(calc.metrics) = 0) => calc.score = 26
    /\ \A len \in ScoreLens :
           len >= calc.len => ScoreOf(len, calc.metrics, calc.followers) >= calc.score
    /\ \A m \in PresentMetrics :
           AtLeast(m, calc.metrics) => ScoreOf(calc.len, m, calc.followers) >= calc.score

\* C38 as stated: with counters present the score is in the band 26..75,
\* monotone, and is 75 when the text has at least 250 characters and the
\* weighted engagement is at least the follower count.
C38_ScoreBand ==
    (calc.scored /\ calc.metrics # NoMetrics) =>
        /\ ScoreBand
        /\ (calc.len >= 250 /\ Weighted(calc.metrics) >= calc.followers)
               => calc.score = 75

\* C38: with counters present the score is in the band 26..75, monotone, and
\* is 75 when the text has at least 250 characters and the weighted
\* engagement is at least the follower count or 1, whichever is greater.
C38_ScoreBandFloorOne ==
    (calc.scored /\ calc.metrics # NoMetrics) =>
        /\ ScoreBand
        /\ (calc.len >= 250 /\ Weighted(calc.metrics) >= Max(1, calc.followers))
               => calc.score = 75

\* a text of 250 characters whose weighted engagement equals the follower
\* count has been scored 75
C38_TopOfBand ==
    /\ calc.scored /\ calc.metrics # NoMetrics
    /\ calc.len = 250
    /\ calc.followers = 26 /\ Weighted(calc.metrics) = 26
    /\ calc.score = 75

\* C5 witness: the scenario post has been scored
C5_ScenarioScored ==
    calc.scored /\ calc.len = 80 /\ calc.metrics = Liked /\ calc.followers = 1000
        /\ calc.score = 30

(***************************************************************************)
(* The matcher alone: Init draws a text and a projects collection, Match   *)
(* applies matchedProjects to them.                                        *)
(***************************************************************************)
\* longest text handed to the matcher
MaxMatchLen == 3

SeqsUpTo(S, n) == UNION {[1..k -> S] : k \in 0..n}

MatchTexts == SeqsUpTo({"s", "S", "o", "x"}, MaxMatchLen)

\* projects as the projects collection holds them: names upper-cased and
\* unique, keywords as they were given
MatchProjects ==
    {[name |-> <<"S", "O">>, keywords |-> <<>>],
     [name |-> <<"X">>, keywords |-> << <<"o", "S">>, <<"x", "x">> >>],
     [name |-> <<"O", "X", "O", "X">>, keywords |-> << <<>> >>]}

MatchTables ==
    {table \in SeqsUpTo(MatchProjects, 2) :
        \A i, j \in DOMAIN table : table[i] = table[j] => i = j}

InitMatch ==
    /\ world \in {World([t1 |-> Quiet], {}, {}, 0, 0)}
    /\ users = <<>>
    /\ projects = <<>>
    /\ ledger = EmptyLedger
    /\ posts = <<>>
    /\ rateLimitUntil = NULL
    /\ now = 0
    /\ res = NoResponse
    /\ quiet = FALSE
    /\ calc \in [text : MatchTexts, dbProjects : MatchTables, result : {<<>>},
                 matched : {FALSE}]
    /\ reqs = NoRequests
    /\ upstreamLog = NoUpstreamLog

Match ==
    /\ ~calc.matched
    /\ calc' = [calc EXCEPT
                   !.result = matchedProjects(calc.text, calc.dbProjects),
                   !.matched = TRUE]
    /\ UNCHANGED <<world, users, projects, ledger, posts, rateLimitUntil, now, res, quiet,
                   reqs, upstreamLog>>

NextMatch == Match

SpecMatch == InitMatch /\ [][NextMatch]_vars

(***************************************************************************)
(* Properties of the matcher (specification SpecMatch).                    *)
(***************************************************************************)
IsSubstring(term, text) ==
    \E i \in 0..(Len(text) - Len(term)) : SubSeq(text, i + 1, i + Len(term)) = term

\* C13: a project is named in the match result exactly when its lower-cased
\* name or one of its lower-cased keywords is a substring of the lower-cased
\* text; the result names nothing else and names no project twice.
C13_Matcher ==
    calc.matched =>
        LET text == toLowerCase(calc.text)
            hit(project) ==
                \/ IsSubstring(toLowerCase(project.name), text)
                \/ \E k \in DOMAIN project.keywords :
                       IsSubstring(toLowerCase(project.keywords[k]), text)
        IN  /\ \A i \in DOMAIN calc.dbProjects :
                   (toUpperCase(calc.dbProjects[i].name) \in Range(calc.result))
                       <=> hit(calc.dbProjects[i])
            /\ \A i \in DOMAIN calc.result :
                   \E j \in DOMAIN calc.dbProjects :
                       calc.result[i] = toUpperCase(calc.dbProjects[j].name)
            /\ \A i, j \in DOMAIN calc.result :
                   calc.result[i] = calc.result[j] => i = j

\* C13 witness: a text in mixed case matched two projects by their names,
\* whatever the case
C13_TwoMatched ==
    /\ calc.matched
    /\ calc.text = <<"x", "S", "o">>
    /\ calc.dbProjects = <<[name |-> <<"S", "O">>, keywords |-> <<>>],
                           [name |-> <<"X">>, keywords |-> << <<"o", "S">>, <<"x", "x">> >>]>>
    /\ calc.result = << <<"S", "O">>, <<"X">> >>

\* what a run on empty stores would write for the stored post i from what
\* the upstream and the projects collection hold now
WrittenNow(i) ==
    processTweet(loopStart(EmptyLedger, <<>>, projects),
                 Candidate(posts[i].postId, world.metrics[posts[i].postId]),
                 posts[i].userId, posts[i].username,
                 users[posts[i].username].followers_count, projects).posts

\* C24: a stored post whose id is in the ledger keeps its score, its reward
\* and its projects through every step, and a run stores a post only when
\* its id is not in the ledger and enters it in the ledger with it.
C24_StoredOnce ==
    [][/\ \A i \in DOMAIN posts :
              posts[i].postId \in LedgerIds(ledger)
                  => /\ i \in DOMAIN posts'
                     /\ posts'[i].postId = posts[i].postId
                     /\ posts'[i].score = posts[i].score
                     /\ posts'[i].blabz = posts[i].blabz
                     /\ posts'[i].project = posts[i].project
       /\ quiet' => \A id \in res'.saved :
                        id \notin LedgerIds(ledger) /\ id \in LedgerIds(ledger')]_vars

\* a live run has fetched a stored post again after its counters, the
\* follower count and the projects changed upstream, and has not written it
C24_FetchedAgainUnchanged ==
    /\ quiet /\ res.live /\ res.status = 200
    /\ \E i \in DOMAIN posts :
          /\ posts[i].postId = "t3"
          /\ posts[i].likes = 0
          /\ world.metrics["t3"] = Liked
          /\ users["alice"].followers_count = FewFollowers
          /\ Len(WrittenNow(i)) = 1
          /\ WrittenNow(i)[1].score # posts[i].score
          /\ WrittenNow(i)[1].project # posts[i].project
    /\ \E k \in 1..res.done : res.tweets[k] = "t3"
    /\ "t3" \notin res.saved
    /\ "t3" \in LedgerIds(ledger)

\* C25: the purge empties the ledger, answers the number of entries it
\* removed and leaves the Post store, the users and the projects as they
\* were; a live run that starts on the emptied ledger skips no tweet, it logs
\* each tweet it deals with and stores again each stored post that passes
\* the stages and matches a project.
C25_Purge ==
    [][/\ ((ledger' # ledger /\ ledger' = EmptyLedger)
            \/ (res' # res /\ res'.deletedCount # NULL))
              => /\ ledger' = EmptyLedger
                 /\ res'.status = 200
                 /\ res'.deletedCount = Cardinality(LedgerIds(ledger))
                 /\ UNCHANGED <<posts, users, projects>>
       /\ (quiet' /\ res'.live /\ ledger = EmptyLedger)
              => \A k \in 1..res'.done :
                     LET id == res'.tweets[k]
                         tw == Candidate(id, world.metrics[id])
                     IN  /\ id \in res'.logged
                         /\ (/\ id \in StoredIds(posts)
                             /\ ~filteredOut(tw)
                             /\ Len(matchedProjects(tw.text, projects)) > 0)
                                => id \in res'.saved]_vars

\* the purge has removed two entries and the stored post is still there
C25_PurgedWithPostsKept ==
    /\ ~quiet
    /\ res.deletedCount = 2
    /\ ledger = EmptyLedger
    /\ "t3" \in StoredIds(posts)

\* C26: a run that ends because the upstream reports that the handle does
\* not exist answers not-found and leaves the users, the ledger, the Post
\* store and the guard as they were.
C26_NotFoundNoEffect ==
    [][(quiet' /\ Len(res'.up) > 0 /\ res'.up[Len(res'.up)] = "notfound")
          => /\ res'.status = 404
             /\ res'.error = "Twitter user not found"
             /\ UNCHANGED <<users, ledger, posts, rateLimitUntil>>]_vars

\* C27: a run in which the upstream fails otherwise than by not-found or
\* 429, at an author fetch or at the timeline, sends the upstream nothing
\* after the failure, answers the server error without a map and without
\* the warning, and leaves the guard, the ledger and the Post store as they
\* were.
C27_UpstreamError ==
    [][(quiet' /\ \E i \in DOMAIN res'.up : res'.up[i] = "error")
          => /\ \A i \in DOMAIN res'.up : res'.up[i] = "error" <=> i = Len(res'.up)
             /\ res'.status # 200
             /\ res'.error = "Server error"
             /\ ~res'.hasPosts /\ ~res'.warning
             /\ UNCHANGED <<rateLimitUntil, ledger, posts>>]_vars

\* the timeline request of a known author with stored posts has failed
C27_TimelineFailed ==
    /\ quiet
    /\ res.up = <<"ok", "error">>
    /\ res.error = "Server error"
    /\ \E i \in DOMAIN posts : posts[i].username = res.username
    /\ rateLimitUntil = NULL

\* C28: a run that has fetched a timeline finishes every tweet of it and
\* answers the map, whatever the text length, the reference type and the
\* counters of the tweets, and each tweet ends in exactly one way: stored
\* and logged, logged only, or skipped without a write.
C28_LoopNeverFails ==
    [][(quiet' /\ res'.live)
          => /\ res'.status = 200
             /\ res'.done = Len(res'.tweets)
             /\ \A k \in DOMAIN res'.tweets :
                    LET id == res'.tweets[k]
                    IN  \/ id \in res'.saved /\ id \in res'.logged
                                             /\ id \in StoredIds(posts')
                        \/ id \notin res'.saved /\ id \in res'.logged
                        \/ id \notin res'.saved /\ id \notin res'.logged
                                                /\ id \in LedgerIds(ledger)]_vars

\* C29: a run that answers with the warning writes neither the ledger nor
\* the Post store, and every entry of its map is a stored document as it was
\* written, in the groups of the project names the document holds.
C29_DegradedBypasses ==
    [][(quiet' /\ res'.warning)
          => /\ UNCHANGED <<ledger, posts>>
             /\ res'.logged = {} /\ res'.saved = {}
             /\ \A name \in DOMAIN res'.posts : \A k \in DOMAIN res'.posts[name] :
                    \E i \in DOMAIN posts :
                        posts[i] = res'.posts[name][k] /\ name \in Range(posts[i].project)
             /\ \A i \in DOMAIN posts :
                    posts[i].postId \in UNION {GroupIds(res'.posts, name) :
                                                  name \in DOMAIN res'.posts}
                        => GroupsOf(res'.posts, posts[i].postId)
                               = Range(posts[i].project)]_vars

\* the warning is on a map that holds a stored post under the one project
\* it was stored with, while its text matches two projects now
C29_StoredNamesNotRematched ==
    /\ quiet /\ res.warning /\ res.hasPosts
    /\ DOMAIN res.posts = {toUpperCase(NameSol), toUpperCase(NameEth)}
    /\ GroupsOf(res.posts, "t3") = {toUpperCase(NameSol)}
    /\ Len(matchedProjects(Tweets["t3"].text, projects)) = 2

\* C30: the expiry of the guard changes only in a step in which the
\* upstream has answered 429, so that it is always fifteen minutes after the
\* latest 429 answer of the upstream; a call the locked guard refuses leaves
\* it as it was.
C30_FixedWindow ==
    [][/\ rateLimitUntil' # rateLimitUntil
              => /\ upstreamLog'.last429 = now
                 /\ \E r \in Requests :
                        reqs[r].pc \in {"firstWait", "secondWait", "timelineWait"}
                        /\ reqs'[r].pc = "idle"
       /\ rateLimitUntil' # NULL
              => rateLimitUntil' = upstreamLog'.last429 + Cooldown]_vars

\* the entries of the map of a response
Entries(cat) == UNION {Range(cat[name]) : name \in DOMAIN cat}

C34_UnknownAuthorUnavailable ==
    [][(/\ quiet' /\ res'.username \notin DOMAIN users /\ res'.rl # "none"
        /\ Len(projects) > 0)
          => /\ res'.status = 503
             /\ ~res'.hasPosts
             /\ ~res'.warning]_vars

\* the names, upper-cased, of the configured projects
ConfiguredNames(table) == {toUpperCase(table[i].name) : i \in DOMAIN table}

\* C36: after every step, every stored post has at least one project name
\* and a reward of score/300 rounded to four decimals times the number of
\* its names, and the names of a post written by the step are names,
\* upper-cased, of the projects configured at the step.
C36_StoredRecords ==
    [][\A i \in DOMAIN posts' :
           /\ Len(posts'[i].project) >= 1
           /\ posts'[i].blabz.units
                  = toFixed4(posts'[i].score, 300) * Len(posts'[i].project)
           /\ posts'[i] \notin Range(posts)
                  => /\ projects' = projects
                     /\ Range(posts'[i].project) \subseteq ConfiguredNames(projects)]_vars

\* two projects are configured and a run has stored a post under one of
\* them only, and another under both
C36_OneOfTwoProjects ==
    /\ Len(projects) = 2
    /\ quiet /\ res.live /\ res.saved # {}
    /\ \E i \in DOMAIN posts :
           /\ Len(posts[i].project) = 1
           /\ posts[i].blabz.units = toFixed4(posts[i].score, 300)
    /\ \E i \in DOMAIN posts : Len(posts[i].project) = 2

\* C37: every post of a response map, fresh or stored, carries the user id
\* and the handle of the author the request names, and no post stored under
\* another user id is in the map.
C37_AuthorIsolation ==
    (res.hasPosts /\ res.username \in DOMAIN users)
        => /\ \A e \in Entries(res.posts) :
                  /\ e.userId = users[res.username].userId
                  /\ e.userId = UserIdOf[res.username]
                  /\ Tweets[e.postId].author = UserIdOf[res.username]
                  /\ e.username = res.username
           /\ \A i \in DOMAIN posts :
                  posts[i].userId # users[res.username].userId
                      => posts[i].postId \notin {e.postId : e \in Entries(res.posts)}

\* the posts of two authors are stored, and a rate-limited request answers
\* from the store with the post of the author it names
C37_TwoAuthorsStored ==
    /\ quiet /\ res.hasPosts /\ res.warning
    /\ res.username \in DOMAIN users
    /\ Entries(res.posts) # {}
    /\ \E i \in DOMAIN posts : posts[i].userId # users[res.username].userId
    /\ \E i \in DOMAIN posts : posts[i].userId = users[res.username].userId

\* C39: with no project configured a request answers no map and writes
\* neither the ledger nor the Post store; when its last author fetch was
\* answered with the author, or when its second author fetch was rate
\* limited, it answers 404 "No projects configured".
C39_NoProjectsNotFound ==
    [][(quiet' /\ Len(projects) = 0)
          => /\ ~res'.hasPosts
             /\ ledger' = ledger /\ posts' = posts
             /\ (res'.up # <<>> /\ res'.up[Len(res'.up)] = "ok")
                    => /\ res'.status = 404
                       /\ res'.error = "No projects configured"
                       /\ res'.rl = "none"
             /\ res'.rl = "second"
                    => /\ res'.status = 404
                       /\ res'.error = "No projects configured"]_vars

\* no project is configured and the second author fetch of a request for a
\* saved author was rate limited: the request answered 404
C39_LimitedNoProjects ==
    /\ quiet /\ Len(projects) = 0
    /\ res.username \in DOMAIN users
    /\ res.rl = "second" /\ res.doc
    /\ res.status = 404 /\ res.error = "No projects configured"
    /\ ledger = EmptyLedger /\ posts = <<>>

(***************************************************************************)
(* Properties of the interleaved loop (specifications SpecLoop, SpecPurge). *)
(***************************************************************************)
\* the documents of the Post store with this id
PostsWithId(id) == {i \in DOMAIN posts : posts[i].postId = id}

\* what one invocation alone, on empty stores, writes for this tweet
SingleRun(id) ==
    processTweet(loopStart(EmptyLedger, <<>>, projects),
                 Candidate(id, world.metrics[id]), users[LoopAuthor].userId, LoopAuthor,
                 users[LoopAuthor].followers_count, projects)

\* C22: however the ledger reads and the ledger and Post writes of two
\* invocations over the same post interleave, the Post store holds one
\* document of the post and the ledger one entry, and the document has the
\* score, the reward and the projects one invocation alone writes.
C22_Converges ==
    \A id \in world.tweets :
        /\ Cardinality(PostsWithId(id)) <= 1
        /\ id \in LedgerIds(ledger) => ledger[id] = 1
        /\ \A i \in PostsWithId(id) : SingleRun(id).posts = <<posts[i]>>
        /\ \A r \in Requests :
               (reqs[r].pc # "idle" /\ id \in reqs[r].saved)
                   => /\ Cardinality(PostsWithId(id)) = 1
                      /\ id \in LedgerIds(ledger)

\* both invocations have read the ledger before either wrote, and both have
\* stored and logged the same post
C22_BothStored ==
    /\ reqs["r1"].pc = "find" /\ "t1" \in reqs["r1"].saved
    /\ reqs["r2"].pc = "find" /\ "t1" \in reqs["r2"].saved
    /\ Cardinality(PostsWithId("t1")) = 1
    /\ ledger["t1"] = 1

\* C23: whatever the order of the store calls of the invocations and of the
\* purges of the ledger, no post id has two documents in the Post store nor
\* two entries in the ledger.
C23_OnePerId ==
    /\ \A i, j \in DOMAIN posts : posts[i].postId = posts[j].postId => i = j
    /\ \A id \in LedgerIds(ledger) : ledger[id] <= 1

\* a post stored and logged while the other invocation is writing the same
\* ledger entry again after a purge
C23_RewrittenAfterPurge ==
    /\ reqs["r1"].pc = "find" /\ "t1" \in reqs["r1"].saved /\ "t5" \in reqs["r1"].logged
    /\ reqs["r2"].pc = "log" /\ tweetAt(reqs["r2"]).id = "t1"
    /\ res.deletedCount = 2
    /\ ledger = EmptyLedger
    /\ Cardinality(PostsWithId("t1")) = 1

\* C32: whatever the order of the steps of the concurrent invocations, the
\* expiry of the guard, once set, is never cleared and never moves back, and
\* it is at least fifteen minutes after the latest 429 answer of the
\* upstream, so that the guard is locked for the fifteen minutes after it.
C32_ExpiryMonotone ==
    [][/\ rateLimitUntil # NULL
              => rateLimitUntil' # NULL /\ rateLimitUntil' >= rateLimitUntil
       /\ upstreamLog'.last429 # NULL
              => /\ rateLimitUntil' # NULL
                 /\ rateLimitUntil' >= upstreamLog'.last429 + Cooldown
                 /\ now' < upstreamLog'.last429 + Cooldown
                        => isLocked(rateLimitUntil', now')]_vars

\* both invocations have sent their author request with the guard unlocked;
\* the upstream has answered 429 to one of them and the guard is locked
\* while the request of the other is still on its way
C32_SecondInFlight ==
    /\ reqs["r1"].pc = "idle"
    /\ reqs["r2"].pc \in {"firstWait", "secondWait"}
    /\ \A e \in upstreamLog.issued : ~e.locked
    /\ upstreamLog.last429 = 0
    /\ now = ClockStep
    /\ isLocked(rateLimitUntil, now)

\* whether the loop would store this tweet: it passes the first three
\* stages and matches a project
Storable(id) ==
    LET tw == Candidate(id, world.metrics[id])
    IN  ~filteredOut(tw) /\ Len(matchedProjects(tw.text, projects)) > 0

\* C35: with the projects fixed, after every step, a failed store call
\* included, every post in the ledger that passes the stages and matches a
\* project is in the Post store; and an invocation that finds no ledger entry
\* for such a post goes on to store it.
C35_StoreBeforeLedger ==
    [][/\ \A id \in LedgerIds(ledger') : Storable(id) => id \in StoredIds(posts')
       /\ \A r \in Requests :
              (/\ reqs[r].pc = "ledgerRead"
               /\ reqs'[r].pc \notin {"ledgerRead", "idle"}
               /\ tweetAt(reqs[r]).id \notin LedgerIds(ledger)
               /\ Storable(tweetAt(reqs[r]).id))
                  => /\ reqs'[r].pc = "post"
                     /\ reqs'[r].k = reqs[r].k]_vars

\* the store has failed an invocation between its two writes: the post is
\* stored and not in the ledger, and the other invocation, started after
\* that, is about to store it again
C35_AbortedBetweenWrites ==
    /\ res.status = 500 /\ res.live
    /\ res.done = 0 /\ res.tweets = <<"t1">>
    /\ "t1" \in StoredIds(posts)
    /\ "t1" \notin LedgerIds(ledger)
    /\ reqs["r1"].pc = "idle"
    /\ reqs["r2"].pc = "post" /\ tweetAt(reqs["r2"]).id = "t1"

(***************************************************************************)
(* Properties of the guard over unbounded time (specification SpecLive).   *)
(***************************************************************************)
\* C31: once the upstream has stopped answering 429, a run fetches the
\* timeline again at some later time, however often the callers ask in the
\* meantime.
C31_Recovers == upstreamLog.calm ~> (quiet /\ res.live)


====
